---- MODULE Spec2Model ----
(***************************************************************************)
(* duckydex-bot: the chapter-to-PDF pipeline of utils/pdf.js               *)
(* (src/unnamed/part_004).  One createChapterPDF call is a state machine   *)
(* whose steps are the stretches of code between two awaits:               *)
(*   Call            the caller invokes createChapterPDF(chapterId)        *)
(*   GetChapterPages the page-list request settles, lines 60-72            *)
(*   SettlePage      one fetchAndCompressImage promise settles             *)
(*   AllSettled      Promise.allSettled resolves, lines 74-83 (and, on the *)
(*                   break of line 80, lines 91-110)                       *)
(*   BuildPdf        buildPdf settles, lines 83-89 (and, when the loop     *)
(*                   ends, lines 91-110; otherwise the next fan-out)       *)
(* Further specifications look at the parts around it:                     *)
(*   SpecFetch  one fetchAndCompressImage call and the proxy's answer      *)
(*   SpecSweep  one cleanupTempFiles call on a directory of aged files     *)
(*   SpecBot    two interleaved export handlers of main.js, their sweeps,  *)
(*              uploads and deletion timers, and the clock                 *)
(***************************************************************************)
EXTENDS Integers, Sequences, FiniteSets, TLC

\* ------------------------------------------------------------ bounds
\* Longest page list the provider returns in the model.
MaxPages == 2
\* Longest chapter identifier, in characters.
MaxIdLen == 2
\* How often the clock advances while the export handlers run.
MaxTicks == 2
\* Longest manga id put on a details button, in characters.
MaxDetIdLen == 21

\* The timeouts the bot sets for message deletion in a run.
MaxTimers == 3

\* The updates the bot handles in a run.
MaxCommands == 3

\* ------------------------------------------------- program constants
MAX_PDF_MB == 50
QUALITY_START == 85
QUALITY_FLOOR == 20
QUALITY_STEP == 10
MAX_WIDTH == 1200
\* The delay of the handlers' deletion timers, ms (main.js:1107).
DELETE_DELAY_MS == 5000
\* Bytes per MB, "/ 1024 / 1024" of line 84.
BytesPerMB == 1024 * 1024

\* ------------------------------------------------------------ inputs
\* Characters a chapter identifier is made of: a letter, a dot and the two
\* path separators the sanitizer names.
IdChars == {"a", ".", "/", "\\"}

ChapterIds == UNION {[1..n -> IdChars] : n \in 0..MaxIdLen}

RECURSIVE Perms(_)
\* The orders in which the provider may list the pages numbered by S.
Perms(S) ==
  IF S = {} THEN {<<>>}
  ELSE UNION {{<<x>> \o p : p \in Perms(S \ {x})} : x \in S}

\* What `await getChapterPages(chapterId)` evaluates to: the parsed JSON body
\* (null, a non-array object such as {"error": ...}, or an array of pages,
\* here the p.page numbers in the provider's order), or a rejection of the
\* fetch / of res.json().
MetaResponses ==
  {[kind |-> k, items |-> <<>>] : k \in {"reject", "null", "object"}}
    \cup {[kind |-> "array", items |-> p] : p \in UNION {Perms(1..n) : n \in 0..MaxPages}}

\* pdfBytes.length of an assembled document: just under, at, and just over
\* the ceiling.
DocSizes == {MAX_PDF_MB * BytesPerMB - 1, MAX_PDF_MB * BytesPerMB, MAX_PDF_MB * BytesPerMB + 1}

\* `let pdfBytes;` before the first assignment.
Undefined == [pages |-> <<>>, canvas |-> <<>>, quality |-> 0, size |-> -1]

NoResult == [path |-> <<>>, filename |-> <<>>, totalPages |-> -1, quality |-> 0, size |-> -1]

VARIABLES
  pc,            \* where the call stands: idle, meta, fetching, building, returned, rejected
  chapterId,     \* the argument, a sequence of characters
  pages,         \* `pages`, the value getChapterPages resolved to
  quality,       \* `quality`
  results,       \* the promises given to Promise.allSettled, by index in pages
  settled,       \* the indexes in the order their promises settled, this attempt
  imageObjects,  \* `imageObjects`
  pdfBytes,      \* `pdfBytes`
  dirs,          \* the directories that exist below the module's parent directory
  files,         \* the files on disk: path -> document
  result,        \* the value createChapterPDF resolved to (size in hundredths of a MB)
  error,         \* the message createChapterPDF rejected with
  attemptLog,    \* the console lines 69/79/86: one entry per attempt
  fetchCount,    \* the console lines 19: fetchAndCompressImage calls
  fetchLog,      \* the same calls, each with its quality and its index in pages
  metaRequests,  \* getChapterPages calls
  mtimes,        \* the files' last-modified times: path -> ms
  now,           \* Date.now(), ms
  ticks,         \* how often the clock has advanced
  fetchCall,     \* a fetchAndCompressImage call on its own: its arguments
  fetchResponse, \* what the proxy answered to it
  fetchOutcome,  \* how its promise settled
  lastSweep,     \* the last cleanupTempFiles call: what it met and what it did
  handlers,      \* the export handlers of main.js: handler -> its locals
  mangaDataCache,\* utils/chapters.js mangaDataCache: key -> stored details
  buttons,       \* the chapter buttons on the messages sent so far
  pressed,       \* the last chapter button pressed and what it resolved to
  detButton,     \* a details button of a search results message
  detRequest,    \* the id the det_ branch passed to getMangaDetails for it
  chat,          \* the bot's messages in the chat: message_id -> what it shows
  messagesToDelete, \* utils/deletion.js messagesToDelete: message_id -> timeout id
  timers,        \* the deletion timeouts that are armed
  running,       \* the timeout callbacks waiting for their deleteMessage call
  timerSeq,      \* the last timeout id setTimeout returned
  loading,       \* a handleCallbackWithLoading call: where it stands, its locals
  searchCache,   \* utils/pagination.js searchCache: chatId -> timestamp stored
  searchGot,     \* the last getStoredSearchResults call and what it returned
  getMe,         \* the handlers waiting for getBotUsername, and what each got
  getMeCalls     \* bot.getMe() calls since the process started

\* The variables of one createChapterPDF call.
callVars == <<pc, chapterId, pages, quality, results, settled, imageObjects, pdfBytes,
              result, error, attemptLog, fetchCount, fetchLog, metaRequests>>

\* The disk and the clock.
diskVars == <<dirs, files, mtimes, now, ticks>>

fetchVars == <<fetchCall, fetchResponse, fetchOutcome>>

\* The manga data store and the buttons that refer to it.
cacheVars == <<mangaDataCache, buttons, pressed>>

\* The state of the chat side of the bot: stores, buttons, messages.
\* A details button and its press.
detVars == <<detButton, detRequest>>

\* Scheduled message deletion and the messages it works on.
deletionVars == <<chat, messagesToDelete, timers, running, timerSeq, loading>>

\* The search results store.
searchVars == <<searchCache, searchGot>>

\* The bot's own username.
usernameVars == <<getMe, getMeCalls>>

chatVars == <<deletionVars, searchVars, usernameVars>>

uiVars == <<cacheVars, detVars, chatVars>>

\* What a createChapterPDF call leaves alone.
outsideCall == <<now, ticks, fetchVars, lastSweep, handlers, uiVars>>

vars == <<callVars, diskVars, fetchVars, lastSweep, handlers, uiVars>>

\* ------------------------------------------------------------ paths
\* The separators path.join splits on (win32 recognises both; posix only "/",
\* so every split made on posix is made here too).
PathSeparators == {"/", "\\"}

RECURSIVE SplitPath(_, _, _)
SplitPath(s, cur, acc) ==
  IF s = <<>> THEN Append(acc, cur)
  ELSE IF Head(s) \in PathSeparators
       THEN SplitPath(Tail(s), <<>>, Append(acc, cur))
       ELSE SplitPath(Tail(s), Append(cur, Head(s)), acc)

RECURSIVE Normalize(_, _)
Normalize(segs, acc) ==
  IF segs = <<>> THEN acc
  ELSE LET h == Head(segs)
       IN  IF h = <<>> \/ h = <<".">> THEN Normalize(Tail(segs), acc)
           ELSE IF h = <<".", ".">>
                THEN Normalize(Tail(segs),
                               IF acc = <<>> THEN acc ELSE SubSeq(acc, 1, Len(acc) - 1))
                ELSE Normalize(Tail(segs), Append(acc, h))

\* path.join(dir, name): the segments of dir followed by those of name,
\* normalized.
PathJoin(dir, name) == Normalize(dir \o SplitPath(name, <<>>, <<>>), <<>>)

\* path.dirname(p)
Dirname(p) == IF p = <<>> THEN p ELSE SubSeq(p, 1, Len(p) - 1)

\* path.join(__dirname, '..', 'temp')
outputDir == << <<"t", "e", "m", "p">> >>

\* chapterId.replace(/[\\/]/g, '_') with only the forward slash replaced.
SafeIdSlashOnly(id) == [i \in 1..Len(id) |-> IF id[i] = "/" THEN "_" ELSE id[i]]

\* chapterId.replace(/[\\/]/g, '_')
SafeId(id) == [i \in 1..Len(id) |-> IF id[i] \in {"\\", "/"} THEN "_" ELSE id[i]]

\* `${safeId}.pdf`
Filename(id) == SafeId(id) \o <<".", "p", "d", "f">>

OutputPath(id) == PathJoin(outputDir, Filename(id))

\* ------------------------------------------------------------ guards
\* `!pages` alone.
NoPagesNullOnly(p) == p.kind = "null"

\* !pages || pages.length === 0
\* (a non-array object is truthy and its .length is undefined)
NoPages(p) == p.kind = "null" \/ (p.kind = "array" /\ Len(p.items) = 0)

\* imageObjects.length < pages.length - 1
ShortfallOffByOne(imgs, pgs) == Len(imgs) < Len(pgs) - 1

\* imageObjects.length === 0
ShortfallOnlyWhenEmpty(imgs, pgs) == Len(imgs) = 0 /\ Len(pgs) > 0

\* imageObjects.length < pages.length
Shortfall(imgs, pgs) == Len(imgs) < Len(pgs)

\* sizeMB < MAX_PDF_MB
MeetsCeilingStrict(bytes) == bytes < MAX_PDF_MB * BytesPerMB

\* the break never taken
MeetsCeilingNever(bytes) == FALSE

\* sizeMB <= MAX_PDF_MB, sizeMB = pdfBytes.length / 1024 / 1024
MeetsCeiling(bytes) == bytes <= MAX_PDF_MB * BytesPerMB

\* a loop that makes one attempt only
LoopContinuesOnce(q) == FALSE

\* the for loop running on to quality 10
LoopContinuesBelowFloor(q) == q >= QUALITY_FLOOR - QUALITY_STEP

\* the for loop's condition, quality >= 20
LoopContinues(q) == q >= QUALITY_FLOOR

\* quality -= 5
NextQualityByFive(q) == q - 5

\* the for loop's update, quality -= 10
NextQuality(q) == q - QUALITY_STEP

\* ------------------------------------------------------------ helpers
RECURSIVE FulfilledIdx(_, _)
\* results.filter(r => r.status === 'fulfilled'): the indexes kept, in the
\* order of the results array, from index i on.
FulfilledIdx(res, i) ==
  IF i > Len(res) THEN <<>>
  ELSE IF res[i] = "fulfilled" THEN <<i>> \o FulfilledIdx(res, i + 1)
       ELSE FulfilledIdx(res, i + 1)

\* The image behind page p's imageUrl: its pixel dimensions (narrower than,
\* wider than, and twice as wide as MAX_WIDTH for pages 1, 2, 3).
SourceImage(p) == [width |-> 800 * p, height |-> 1000 * p]

\* sharp(buffer).resize({ width: MAX_WIDTH, withoutEnlargement: true })
\* .jpeg({ quality }) and its metadata: the value fetchAndCompressImage
\* resolves to.  The buffer is known by the quality it was encoded at.
Compress(img, pageNumber, q) ==
  LET w == IF img.width > MAX_WIDTH THEN MAX_WIDTH ELSE img.width
  IN  [pageNumber |-> pageNumber,
       quality |-> q,
       width |-> w,
       height |-> (img.height * w + img.width \div 2) \div img.width]

\* What the image proxy does with one request: node-fetch rejects on a network
\* error and on the 30 s timeout, and resolves with a response for every HTTP
\* status; the body is a decodable image, something else (an error page), or
\* breaks off while it is read.
FetchResponses ==
  {[net |-> n, status |-> 0, body |-> "none"] : n \in {"error", "timeout"}}
    \cup {[net |-> "ok", status |-> st, body |-> b] :
             st \in {200, 404, 500, 503}, b \in {"image", "not_image", "aborted"}}

\* fetchAndCompressImage with `if (!res.ok) throw ...` after the fetch.
FetchAndCompressImageChecked(resp, pageNumber, q) ==
  IF resp.net # "ok" THEN [status |-> "rejected", reason |-> "FetchError"]
  ELSE IF resp.status \notin 200..299 THEN [status |-> "rejected", reason |-> "status"]
  ELSE IF resp.body = "aborted" THEN [status |-> "rejected", reason |-> "body"]
  ELSE IF resp.body # "image" THEN [status |-> "rejected", reason |-> "unsupported image format"]
  ELSE IF q \notin 1..100 THEN [status |-> "rejected", reason |-> "quality"]
  ELSE [status |-> "fulfilled", value |-> Compress(SourceImage(pageNumber), pageNumber, q)]

\* fetchAndCompressImage(url, pageNumber, quality), lines 17-41: await fetch,
\* await res.arrayBuffer(), sharp(...).toBuffer(), metadata, return.  res.ok and
\* res.status are never read.
FetchAndCompressImage(resp, pageNumber, q) ==
  IF resp.net # "ok" THEN [status |-> "rejected", reason |-> "FetchError"]
  ELSE IF resp.body = "aborted" THEN [status |-> "rejected", reason |-> "body"]
  ELSE IF resp.body # "image" THEN [status |-> "rejected", reason |-> "unsupported image format"]
  ELSE IF q \notin 1..100 THEN [status |-> "rejected", reason |-> "quality"]
  ELSE [status |-> "fulfilled", value |-> Compress(SourceImage(pageNumber), pageNumber, q)]

\* The fulfilled values in the order in which the promises settled.
ImageObjectsInSettleOrder(res, pgs, q) ==
  LET idx == SelectSeq(settled, LAMBDA i : res[i] = "fulfilled")
  IN  [k \in 1..Len(idx) |-> Compress(SourceImage(pgs[idx[k]]), pgs[idx[k]], q)]

\* .map(r => r.value): the image objects, each with the pageNumber and the
\* quality fetchAndCompressImage was called with.
ImageObjects(res, pgs, q) ==
  LET idx == FulfilledIdx(res, 1)
  IN  [k \in 1..Len(idx) |-> Compress(SourceImage(pgs[idx[k]]), pgs[idx[k]], q)]

\* buildPdf(imageObjects): one page per image object, in input order, each
\* page's canvas [width, height] that of its image.
Document(imgs, q, bytes) ==
  [pages |-> [k \in 1..Len(imgs) |-> imgs[k].pageNumber],
   canvas |-> [k \in 1..Len(imgs) |-> <<imgs[k].width, imgs[k].height>>],
   quality |-> q, size |-> bytes]

\* +(pdfBytes.length / 1024 / 1024).toFixed(2), in hundredths of a MB
\* (rounded to the nearest hundredth).
SizeMB(bytes) ==
  (bytes \div BytesPerMB) * 100
    + ((bytes % BytesPerMB) * 200 + BytesPerMB) \div (2 * BytesPerMB)

\* The fetchAndCompressImage calls of one fan-out: quality and index in pages.
FetchCalls(pgs, q) == [i \in 1..Len(pgs) |-> [quality |-> q, index |-> i]]

\* Promise.all instead of Promise.allSettled: resolved at the first rejection.
SettledOrOneRejected(res) ==
  \/ \A i \in DOMAIN res : res[i] # "pending"
  \/ \E i \in DOMAIN res : res[i] = "rejected"

\* await Promise.allSettled(...): every promise has settled.
AllResultsSettled(res) == \A i \in DOMAIN res : res[i] # "pending"

\* pages.map(p => fetchAndCompressImage(p.imageUrl, p.page, quality)): every
\* promise pending.
FanOut(pgs) == [i \in 1..Len(pgs) |-> "pending"]

\* 60 * 60 * 1000 of line 119: how long a scratch file is kept, ms.
RETENTION_MS == 60 * 60 * 1000

\* const cutoff = Date.now()
CutoffNow(t) == t

\* const cutoff = Date.now() - 60 * 60 * 1000
Cutoff(t) == t - RETENTION_MS

\* stat.mtimeMs <= cutoff
IsOldInclusive(mtime, cutoff) == mtime <= cutoff

\* stat.mtimeMs < cutoff
IsOld(mtime, cutoff) == mtime < cutoff

\* No file-system call of the sweep fails.
NoFault == [op |-> "none", path |-> <<>>]

\* The file-system call of one sweep that throws, if any: readdirSync, or
\* statSync / unlinkSync of one entry (EACCES, EPERM, EBUSY, EISDIR ...).
\* The first throw ends the sweep, so one per sweep covers every run.
SweepFaults(fs) ==
  {NoFault, [op |-> "readdir", path |-> <<>>]}
    \cup {[op |-> o, path |-> f] : o \in {"stat", "unlink"}, f \in DOMAIN fs}

\* fs.readdirSync(dir): the entries of the scratch directory, in any order.
Listings(fs) == Perms({f \in DOMAIN fs : Dirname(f) = outputDir})

\* A file table without the entry f.
Without(fs, f) == [g \in DOMAIN fs \ {f} |-> fs[g]]

RECURSIVE SweepFrom(_, _, _, _, _)
\* The forEach of lines 120-127 over the rest of the listing: stat, compare,
\* unlink.  Nothing catches a throw, so it ends the loop and leaves
\* cleanupTempFiles.
SweepFrom(order, fs, mt, cutoff, fault) ==
  IF order = <<>> THEN [files |-> fs, mtimes |-> mt, threw |-> FALSE]
  ELSE LET f == Head(order)
       IN  IF fault = [op |-> "stat", path |-> f]
           THEN [files |-> fs, mtimes |-> mt, threw |-> TRUE]
           ELSE IF IsOld(mt[f], cutoff)
                THEN IF fault = [op |-> "unlink", path |-> f]
                     THEN [files |-> fs, mtimes |-> mt, threw |-> TRUE]
                     ELSE SweepFrom(Tail(order), Without(fs, f), Without(mt, f), cutoff, fault)
                ELSE SweepFrom(Tail(order), fs, mt, cutoff, fault)

\* cleanupTempFiles(), lines 116-129, at time t: what it leaves on disk and
\* whether it threw.
CleanupTempFiles(ds, fs, mt, t, order, fault) ==
  IF outputDir \notin ds THEN [files |-> fs, mtimes |-> mt, threw |-> FALSE]
  ELSE IF fault.op = "readdir" THEN [files |-> fs, mtimes |-> mt, threw |-> TRUE]
  ELSE SweepFrom(order, fs, mt, Cutoff(t), fault)

\* Lines 91-110: sanitize, create the directories, write, return.
\* fs.writeFileSync(outputPath, undefined) throws ERR_INVALID_ARG_TYPE before
\* it opens the file (Node.js 16+, README line 56).
WriteAndReturn(q, bytes) ==
  LET outputPath == OutputPath(chapterId)
  IN  /\ dirs' = dirs \cup {outputDir, Dirname(outputPath)}
      /\ IF bytes = Undefined
         THEN /\ pc' = "rejected"
              /\ error' = "ERR_INVALID_ARG_TYPE"
              /\ UNCHANGED <<files, mtimes, result>>
         ELSE /\ pc' = "returned"
              /\ files' = [p \in DOMAIN files \cup {outputPath} |->
                             IF p = outputPath THEN bytes ELSE files[p]]
              /\ mtimes' = [p \in DOMAIN files \cup {outputPath} |->
                              IF p = outputPath THEN now ELSE mtimes[p]]
              /\ result' = [path |-> outputPath,
                            filename |-> Filename(chapterId),
                            totalPages |-> Len(pages.items),
                            quality |-> q,
                            size |-> SizeMB(bytes.size)]
              /\ UNCHANGED error

\* ------------------------------------------------------------ actions
\* No createChapterPDF call has been made.
CallAtRest ==
  /\ pc = "idle"
  /\ chapterId = <<>>
  /\ pages = [kind |-> "unset", items |-> <<>>]
  /\ quality = 0
  /\ results = <<>>
  /\ settled = <<>>
  /\ imageObjects = <<>>
  /\ pdfBytes = Undefined
  /\ result = NoResult
  /\ error = ""
  /\ attemptLog = <<>>
  /\ fetchCount = 0
  /\ fetchLog = <<>>
  /\ metaRequests = 0

\* The scratch directory does not exist yet; the clock stands at 0.
DiskEmpty ==
  /\ dirs = {}
  /\ files = <<>>
  /\ mtimes = <<>>
  /\ now = 0
  /\ ticks = 0

\* No fetchAndCompressImage call is being looked at on its own.
FetchAtRest ==
  /\ fetchCall = [state |-> "idle", pageNumber |-> 0, quality |-> 0]
  /\ fetchResponse = [net |-> "none", status |-> 0, body |-> "none"]
  /\ fetchOutcome = [status |-> "pending"]

\* cleanupTempFiles has not run.
SweepAtRest ==
  lastSweep = [ran |-> FALSE, order |-> <<>>, fault |-> NoFault, before |-> <<>>,
               threw |-> FALSE]

\* No export handler has started.
HandlersAtRest == handlers = <<>>

\* `const mangaDataCache = new Map()`; no message with buttons has been sent.
CacheAtRest ==
  /\ mangaDataCache = <<>>
  /\ buttons = {}
  /\ pressed = [state |-> "none"]

\* What a destructuring or an index yields past the end of the array.
UndefinedKey == <<"undefined">>

\* No search results message has been sent.
DetAtRest ==
  /\ detButton = [manga |-> <<>>, data |-> <<>>]
  /\ detRequest = UndefinedKey

\* handleCallbackWithLoading has not been called.
NotLoading == [pc |-> "idle", message |-> 0, edited |-> FALSE, text |-> "none"]

\* `const messagesToDelete = new Map()`; nothing sent, nothing scheduled.
DeletionAtRest ==
  /\ chat = <<>>
  /\ messagesToDelete = <<>>
  /\ timers = {}
  /\ running = {}
  /\ timerSeq = 0
  /\ loading = NotLoading

\* `const searchCache = new Map()`
SearchAtRest ==
  /\ searchCache = <<>>
  /\ searchGot = [state |-> "none"]

\* No handler has asked for the username.
UsernameAtRest ==
  /\ getMe = <<>>
  /\ getMeCalls = 0

ChatAtRest ==
  /\ DeletionAtRest
  /\ SearchAtRest
  /\ UsernameAtRest

\* The bot has just started: nothing stored, nothing sent.
UiAtRest ==
  /\ CacheAtRest
  /\ DetAtRest
  /\ ChatAtRest

Init ==
  /\ CallAtRest
  /\ DiskEmpty
  /\ FetchAtRest
  /\ SweepAtRest
  /\ HandlersAtRest
  /\ UiAtRest

\* createChapterPDF(id) up to `await getChapterPages(chapterId)`.
Call ==
  /\ pc = "idle"
  /\ \E id \in ChapterIds : chapterId' = id
  /\ pc' = "meta"
  /\ metaRequests' = metaRequests + 1
  /\ UNCHANGED <<pages, quality, results, settled, imageObjects, pdfBytes, dirs, files, mtimes,
                 result, error, attemptLog, fetchCount, fetchLog>>
  /\ UNCHANGED outsideCall

\* The page-list request settles; lines 60-72 run up to the await of
\* Promise.allSettled.
GetChapterPages ==
  /\ pc = "meta"
  /\ \E r \in MetaResponses :
       IF r.kind = "reject"
       THEN /\ pc' = "rejected"
            /\ error' = "FetchError"
            /\ UNCHANGED <<pages, quality, results, fetchCount, fetchLog>>
       ELSE /\ pages' = r
            /\ IF NoPages(r)
               THEN /\ pc' = "rejected"
                    /\ error' = "No pages found"
                    /\ UNCHANGED <<quality, results, fetchCount, fetchLog>>
               ELSE /\ quality' = QUALITY_START
                    /\ IF r.kind = "array"
                       THEN /\ pc' = "fetching"
                            /\ results' = FanOut(r.items)
                            /\ fetchCount' = fetchCount + Len(r.items)
                            /\ fetchLog' = fetchLog \o FetchCalls(r.items, QUALITY_START)
                            /\ UNCHANGED error
                       ELSE \* pages.map is not a function
                            /\ pc' = "rejected"
                            /\ error' = "TypeError"
                            /\ UNCHANGED <<results, fetchCount, fetchLog>>
  /\ UNCHANGED <<chapterId, settled, imageObjects, pdfBytes, dirs, files, mtimes, result,
                 attemptLog, metaRequests>>
  /\ UNCHANGED outsideCall

\* One fetchAndCompressImage promise settles, in any order, as the proxy's
\* answer to its request makes it settle.
SettlePage ==
  /\ pc = "fetching"
  /\ \E i \in DOMAIN results, r \in FetchResponses :
       /\ results[i] = "pending"
       /\ results' = [results EXCEPT
                        ![i] = FetchAndCompressImage(r, pages.items[i], quality).status]
       /\ settled' = Append(settled, i)
  /\ UNCHANGED <<pc, chapterId, pages, quality, imageObjects, pdfBytes, dirs, files, mtimes,
                 result, error, attemptLog, fetchCount, fetchLog, metaRequests>>
  /\ UNCHANGED outsideCall

\* Promise.allSettled resolves: lines 74-83, and lines 91-110 on the break.
AllSettled ==
  /\ pc = "fetching"
  /\ AllResultsSettled(results)
  /\ LET imgs == ImageObjects(results, pages.items, quality)
     IN  /\ imageObjects' = imgs
         /\ IF Shortfall(imgs, pages.items)
            THEN /\ attemptLog' = Append(attemptLog,
                      [quality |-> quality, fulfilled |-> Len(imgs),
                       status |-> "partial", size |-> -1])
                 /\ WriteAndReturn(quality, pdfBytes)
            ELSE /\ attemptLog' = attemptLog
                 /\ pc' = "building"
                 /\ UNCHANGED <<dirs, files, mtimes, result, error>>
  /\ UNCHANGED <<chapterId, pages, quality, results, settled, pdfBytes, fetchCount, fetchLog,
                 metaRequests>>
  /\ UNCHANGED outsideCall

\* buildPdf's rejection caught and answered with `break`.
EmbedFailsCaught ==
  /\ attemptLog' = Append(attemptLog,
       [quality |-> quality, fulfilled |-> Len(imageObjects),
        status |-> "embed_failed", size |-> -1])
  /\ WriteAndReturn(quality, pdfBytes)
  /\ UNCHANGED <<quality, results, pdfBytes, fetchCount, fetchLog>>

\* pdfDoc.embedJpg throws inside buildPdf (line 48): the rejection of
\* `await buildPdf(imageObjects)` (line 83) is caught nowhere in
\* createChapterPDF and rejects the call.
EmbedFails ==
  /\ pc' = "rejected"
  /\ error' = "EmbedError"
  /\ attemptLog' = Append(attemptLog,
       [quality |-> quality, fulfilled |-> Len(imageObjects),
        status |-> "embed_failed", size |-> -1])
  /\ UNCHANGED <<quality, results, pdfBytes, dirs, files, mtimes, result, fetchCount, fetchLog>>

\* buildPdf settles: line 83 to the end of the loop body, then either the
\* next fan-out or lines 91-110.
BuildPdf ==
  /\ pc = "building"
  /\ \/ EmbedFails
     \/ \E bytes \in DocSizes :
          LET doc == Document(imageObjects, quality, bytes)
          IN  /\ pdfBytes' = doc
              /\ attemptLog' = Append(attemptLog,
                   [quality |-> quality, fulfilled |-> Len(imageObjects),
                    status |-> "assembled", size |-> bytes])
              /\ IF MeetsCeiling(bytes)
                 THEN /\ WriteAndReturn(quality, doc)
                      /\ UNCHANGED <<quality, results, fetchCount, fetchLog>>
                 ELSE /\ quality' = NextQuality(quality)
                      /\ IF LoopContinues(NextQuality(quality))
                         THEN /\ pc' = "fetching"
                              /\ results' = FanOut(pages.items)
                              /\ fetchCount' = fetchCount + Len(pages.items)
                              /\ fetchLog' = fetchLog \o FetchCalls(pages.items, NextQuality(quality))
                              /\ UNCHANGED <<dirs, files, mtimes, result, error>>
                         ELSE /\ WriteAndReturn(NextQuality(quality), doc)
                              /\ UNCHANGED <<results, fetchCount, fetchLog>>
  /\ settled' = <<>>
  /\ UNCHANGED <<chapterId, pages, imageObjects, metaRequests>>
  /\ UNCHANGED outsideCall

Next == Call \/ GetChapterPages \/ SettlePage \/ AllSettled \/ BuildPdf

Spec == Init /\ [][Next]_vars

\* A call has just been made (the state Call leaves), for an identifier with
\* and one without a separator; lines 60-89 never read the identifier.
InitCalled ==
  /\ pc = "meta"
  /\ chapterId \in {<<"a">>, <<"/">>}
  /\ pages = [kind |-> "unset", items |-> <<>>]
  /\ quality = 0
  /\ results = <<>>
  /\ settled = <<>>
  /\ imageObjects = <<>>
  /\ pdfBytes = Undefined
  /\ result = NoResult
  /\ error = ""
  /\ attemptLog = <<>>
  /\ fetchCount = 0
  /\ fetchLog = <<>>
  /\ metaRequests = 1
  /\ DiskEmpty
  /\ FetchAtRest
  /\ SweepAtRest
  /\ HandlersAtRest
  /\ UiAtRest

NextCalled == GetChapterPages \/ SettlePage \/ AllSettled \/ BuildPdf

\* One call from its first await on, when every request it waits for settles
\* (each fetch has a 30 s timeout, line 20) and the event loop runs every
\* continuation that is ready.
FairSpec ==
  /\ InitCalled
  /\ [][NextCalled]_vars
  /\ WF_vars(GetChapterPages)
  /\ WF_vars(SettlePage)
  /\ WF_vars(AllSettled)
  /\ WF_vars(BuildPdf)

\* ------------------------------------- fetchAndCompressImage on its own
\* The qualities a caller may pass: those of the encoding loop and one that
\* the encoder refuses.
FetchQualities == {0, 25, 55, QUALITY_START}

\* fetchAndCompressImage(url, pageNumber, quality) is called: line 19-20, the
\* request is on its way.
FetchIssue ==
  /\ fetchCall.state = "idle"
  /\ \E n \in 1..MaxPages, q \in FetchQualities :
       fetchCall' = [state |-> "pending", pageNumber |-> n, quality |-> q]
  /\ UNCHANGED <<fetchResponse, fetchOutcome>>
  /\ UNCHANGED <<callVars, uiVars, diskVars, lastSweep, handlers>>

\* The proxy answers (or the request fails) and the promise settles,
\* lines 20-40.
FetchSettle ==
  /\ fetchCall.state = "pending"
  /\ \E r \in FetchResponses :
       /\ fetchResponse' = r
       /\ fetchOutcome' = FetchAndCompressImage(r, fetchCall.pageNumber, fetchCall.quality)
  /\ fetchCall' = [fetchCall EXCEPT !.state = "settled"]
  /\ UNCHANGED <<callVars, uiVars, diskVars, lastSweep, handlers>>

NextFetch == FetchIssue \/ FetchSettle

SpecFetch == Init /\ [][NextFetch]_vars

\* ------------------------------------------ cleanupTempFiles on its own
\* The files a sweep may meet in the scratch directory: exports of
\* one-character chapter identifiers.
SweepPaths == {OutputPath(<<c>>) : c \in IdChars}

\* A file left by an earlier export.
LeftOver == Document(<<>>, QUALITY_START, 0)

\* When the sweep runs.
SweepClock == 2 * RETENTION_MS

\* Last-modified times around the cutoff: a second younger than the
\* retention period, exactly as old, a second older.
SweepMtimes ==
  {SweepClock - RETENTION_MS + 1000, SweepClock - RETENTION_MS, SweepClock - RETENTION_MS - 1000}

\* The bot is up, no export is running, and the scratch directory is missing
\* or holds some files of some age.
InitSweep ==
  /\ CallAtRest
  /\ FetchAtRest
  /\ SweepAtRest
  /\ HandlersAtRest
  /\ UiAtRest
  /\ now = SweepClock
  /\ ticks = 0
  /\ dirs \in {{}, {outputDir}}
  /\ \E S \in SUBSET SweepPaths :
       /\ dirs = {} => S = {}
       /\ files = [f \in S |-> LeftOver]
       /\ mtimes \in [S -> SweepMtimes]

\* One cleanupTempFiles() call, lines 116-129; it is synchronous, so it is one
\* step.  The listing order and the failing call are the file system's.
SweepDirectory ==
  /\ ~lastSweep.ran
  /\ \E order \in Listings(files), fault \in SweepFaults(files) :
       LET r == CleanupTempFiles(dirs, files, mtimes, now, order, fault)
       IN  /\ files' = r.files
           /\ mtimes' = r.mtimes
           /\ lastSweep' = [ran |-> TRUE, order |-> order, fault |-> fault,
                            before |-> mtimes, threw |-> r.threw]
  /\ UNCHANGED <<dirs, now, ticks>>
  /\ UNCHANGED <<callVars, uiVars, fetchVars, handlers>>

NextSweep == SweepDirectory

SpecSweep == InitSweep /\ [][NextSweep]_vars

\* ------------------------------------------- the export handlers, main.js
\* The /pdf command (main.js 1059-1124) and the latpdf_ and ch_ callbacks
\* (1446-1505, 1670-1735) run the same steps; a handler's steps are the
\* stretches of code between two awaits, and two invocations interleave at
\* the awaits.  createChapterPDF touches the disk in its last synchronous
\* stretch only (lines 91-110), so a handler sees it as one settling step.
Handlers == {"h1", "h2"}

\* The chapters asked for: a plain identifier and two that differ in the
\* separator only, hence share one file name.
BotChapterIds == {<<"a">>, <<"/">>, <<"\\">>}

\* The clock advances by the timer delay or by the retention period.
TickSteps == {DELETE_DELAY_MS, RETENTION_MS}

IdleHandler ==
  [pc |-> "idle", chapterId |-> <<>>, path |-> <<>>, error |-> "", sweep |-> "none",
   delivered |-> FALSE, timer |-> "none", due |-> 0]

\* The document createChapterPDF(id) writes for the handler h.
Exported(id, h) == [chapterId |-> id, by |-> h]

\* sendDocument's rejection not leaving the try block.
AfterSendDocumentUnchecked(ok) == "delmsg"

\* await bot.sendDocument(...): on success the handler goes on to delete the
\* status message and set the timer, on rejection to the catch block.
AfterSendDocument(ok) == IF ok THEN "delmsg" ELSE "report"

InitBot ==
  /\ CallAtRest
  /\ DiskEmpty
  /\ FetchAtRest
  /\ SweepAtRest
  /\ handlers = [h \in Handlers |-> IdleHandler]
  /\ UiAtRest

\* An export is requested: the handler runs up to `await bot.sendMessage`
\* (main.js 1059-1066).
Start(h) ==
  /\ handlers[h].pc = "idle"
  /\ \E id \in BotChapterIds :
       handlers' = [handlers EXCEPT ![h].pc = "status", ![h].chapterId = id]
  /\ UNCHANGED <<callVars, uiVars, diskVars, fetchVars, lastSweep>>

\* The status message is sent (or not: the rejection is outside the try and
\* ends the handler); then, inside the try, cleanupTempFiles() runs and
\* createChapterPDF is called (main.js 1066-1071).  A throw of
\* cleanupTempFiles goes to the catch block of line 1108.
StatusSent(h) ==
  /\ handlers[h].pc = "status"
  /\ \/ /\ handlers' = [handlers EXCEPT ![h].pc = "failed", ![h].error = "status"]
        /\ UNCHANGED <<files, mtimes>>
     \/ \E order \in Listings(files), fault \in SweepFaults(files) :
          LET r == CleanupTempFiles(dirs, files, mtimes, now, order, fault)
          IN  /\ files' = r.files
              /\ mtimes' = r.mtimes
              /\ handlers' = IF r.threw
                              THEN [handlers EXCEPT ![h].pc = "report", ![h].error = "sweep",
                                                    ![h].sweep = "threw"]
                              ELSE [handlers EXCEPT ![h].pc = "pdf", ![h].sweep = "ok"]
  /\ UNCHANGED <<dirs, now, ticks>>
  /\ UNCHANGED <<callVars, uiVars, fetchVars, lastSweep>>

\* createChapterPDF settles (main.js 1071): it rejects before it touches the
\* disk (part_004 60-61), rejects after it created the directory (line 99
\* with pdfBytes undefined), or writes the file and returns (lines 91-110).
PdfSettles(h) ==
  /\ handlers[h].pc = "pdf"
  /\ LET outputPath == OutputPath(handlers[h].chapterId)
     IN  \/ /\ handlers' = [handlers EXCEPT ![h].pc = "report", ![h].error = "pdf"]
            /\ UNCHANGED <<dirs, files, mtimes>>
         \/ /\ handlers' = [handlers EXCEPT ![h].pc = "report", ![h].error = "pdf"]
            /\ dirs' = dirs \cup {outputDir, Dirname(outputPath)}
            /\ outputDir \notin dirs
            /\ UNCHANGED <<files, mtimes>>
         \/ /\ handlers' = [handlers EXCEPT ![h].pc = "edit", ![h].path = outputPath]
            /\ dirs' = dirs \cup {outputDir, Dirname(outputPath)}
            /\ files' = [f \in DOMAIN files \cup {outputPath} |->
                           IF f = outputPath THEN Exported(handlers[h].chapterId, h)
                           ELSE files[f]]
            /\ mtimes' = [f \in DOMAIN files \cup {outputPath} |->
                            IF f = outputPath THEN now ELSE mtimes[f]]
  /\ UNCHANGED <<now, ticks>>
  /\ UNCHANGED <<callVars, uiVars, fetchVars, lastSweep>>

\* The status message is edited, or the replacement message is sent
\* (main.js 1073-1084); if both fail the rejection goes to the catch block.
EditSettles(h) ==
  /\ handlers[h].pc = "edit"
  /\ \/ handlers' = [handlers EXCEPT ![h].pc = "send"]
     \/ handlers' = [handlers EXCEPT ![h].pc = "report", ![h].error = "edit"]
  /\ UNCHANGED <<callVars, uiVars, diskVars, fetchVars, lastSweep>>

\* await bot.sendDocument(chatId, result.path, ...) settles (main.js 1086).
SendSettles(h) ==
  /\ handlers[h].pc = "send"
  /\ \E ok \in BOOLEAN :
       handlers' = [handlers EXCEPT ![h].pc = AfterSendDocument(ok),
                                    ![h].delivered = ok,
                                    ![h].error = IF ok THEN @ ELSE "send"]
  /\ UNCHANGED <<callVars, uiVars, diskVars, fetchVars, lastSweep>>

\* deleteMessage settles, either way, and the deletion timer is set
\* (main.js 1091-1107).
DelMsgSettles(h) ==
  /\ handlers[h].pc = "delmsg"
  /\ handlers' = [handlers EXCEPT ![h].pc = "done", ![h].timer = "pending",
                                  ![h].due = now + DELETE_DELAY_MS]
  /\ UNCHANGED <<callVars, uiVars, diskVars, fetchVars, lastSweep>>

\* The timer's callback runs (main.js 1098-1106): no earlier than its delay;
\* it unlinks result.path if it exists, and a throw of unlinkSync is caught.
TimerFires(h) ==
  /\ handlers[h].timer = "pending"
  /\ now >= handlers[h].due
  /\ \/ /\ handlers' = [handlers EXCEPT ![h].timer = "fired"]
        /\ files' = Without(files, handlers[h].path)
        /\ mtimes' = Without(mtimes, handlers[h].path)
     \/ /\ handlers[h].path \in DOMAIN files
        /\ handlers' = [handlers EXCEPT ![h].timer = "unlink_failed"]
        /\ UNCHANGED <<files, mtimes>>
  /\ UNCHANGED <<dirs, now, ticks>>
  /\ UNCHANGED <<callVars, uiVars, fetchVars, lastSweep>>

\* The catch block (main.js 1108-1123): the failure is reported by editing
\* the status message or by a new message.
ReportSettles(h) ==
  /\ handlers[h].pc = "report"
  /\ handlers' = [handlers EXCEPT ![h].pc = "failed"]
  /\ UNCHANGED <<callVars, uiVars, diskVars, fetchVars, lastSweep>>

\* Time passes.
Tick ==
  /\ ticks < MaxTicks
  /\ \E d \in TickSteps : now' = now + d
  /\ ticks' = ticks + 1
  /\ UNCHANGED <<dirs, files, mtimes>>
  /\ UNCHANGED <<callVars, uiVars, fetchVars, lastSweep, handlers>>

NextBot ==
  \/ \E h \in Handlers :
       \/ Start(h)
       \/ StatusSent(h)
       \/ PdfSettles(h)
       \/ EditSettles(h)
       \/ SendSettles(h)
       \/ DelMsgSettles(h)
       \/ TimerFires(h)
       \/ ReportSettles(h)
  \/ Tick

SpecBot == InitBot /\ [][NextBot]_vars

\* ------------------------------------ the manga data store and its buttons
\* utils/chapters.js (src/unnamed/part_005) and the branches of main.js that
\* store into it and read from it.
SHORT_ID_LEN == 10

\* 2 * 60 * 60 * 1000 of part_005:16, ms.
MANGA_TTL_MS == 2 * 60 * 60 * 1000

\* n times the character c.
Repeat(c, n) == [i \in 1..n |-> c]

\* s.substring(0, n)
Substring(s, n) == SubSeq(s, 1, IF Len(s) < n THEN Len(s) ELSE n)

RECURSIVE Split(_, _, _, _)
\* s.split(sep), with cur the piece being read and acc the pieces read.
Split(s, sep, cur, acc) ==
  IF s = <<>> THEN Append(acc, cur)
  ELSE IF Head(s) = sep
       THEN Split(Tail(s), sep, <<>>, Append(acc, cur))
       ELSE Split(Tail(s), sep, Append(cur, Head(s)), acc)

\* parts[i], counted from 1.
Part(parts, i) == IF i <= Len(parts) THEN parts[i] ELSE UndefinedKey

\* The manga ids the provider knows: two that agree in their first ten
\* characters, the ten-character id that is this prefix, and a short one
\* with an underscore.
MangaIds ==
  {Repeat("a", SHORT_ID_LEN) \o <<"b">>, Repeat("a", SHORT_ID_LEN) \o <<"c">>,
   Repeat("a", SHORT_ID_LEN), <<"a", "_", "b">>}

\* mangaId.length > 10 ? mangaId.substring(0, 10) : mangaId
ShortMangaId(id) == IF Len(id) > SHORT_ID_LEN THEN Substring(id, SHORT_ID_LEN) ELSE id

\* `ch_${chapterIndex}_${shortMangaId}`, part_005:66
ChData(index, id) == <<"c", "h", "_">> \o index \o <<"_">> \o ShortMangaId(id)

\* `chp_${shortMangaId}_${page}`, part_005:79 and 91
ChpData(id, page) == <<"c", "h", "p", "_">> \o ShortMangaId(id) \o <<"_">> \o page

\* mangaDataCache.get(mangaId) || null: the null.
NoDetails == [manga |-> <<>>, timestamp |-> -1]

\* storeMangaData(key, data) at time t, part_005:9-22: set, then drop what
\* is older than two hours.
StoreMangaData(cache, key, manga, t) ==
  LET set == [k \in DOMAIN cache \cup {key} |->
                IF k = key THEN [manga |-> manga, timestamp |-> t] ELSE cache[k]]
  IN  [k \in {j \in DOMAIN set : ~(set[j].timestamp < t - MANGA_TTL_MS)} |-> set[k]]

\* getStoredMangaData(key), part_005:29-31
GetStoredMangaData(cache, key) == IF key \in DOMAIN cache THEN cache[key] ELSE NoDetails

InitCache ==
  /\ CallAtRest
  /\ DiskEmpty
  /\ FetchAtRest
  /\ SweepAtRest
  /\ HandlersAtRest
  /\ UiAtRest

\* The details of manga m are fetched and shown (/details, main.js 936-941;
\* det_ branch, 1373-1378): they are stored under the short and the full id,
\* and the message carries the keyboard createMangaDetailsMessage builds with
\* createChapterKeyboard(details.chapters, details.id, 0) (details.js:62).
ViewDetails(m) ==
  /\ mangaDataCache' = StoreMangaData(StoreMangaData(mangaDataCache, ShortMangaId(m), m, now),
                                      m, m, now)
  /\ buttons' = buttons \cup {[kind |-> "ch", manga |-> m, data |-> ChData(<<"0">>, m)],
                               [kind |-> "chp", manga |-> m, data |-> ChpData(m, <<"1">>)]}
  /\ UNCHANGED pressed
  /\ UNCHANGED <<callVars, diskVars, fetchVars, lastSweep, handlers, detVars, chatVars>>

\* A chapter button is pressed: the ch_ branch, main.js 1670-1672.
PressChapter(b) ==
  /\ b.kind = "ch"
  /\ pressed' = [state |-> "ch", button |-> b,
                 details |-> GetStoredMangaData(mangaDataCache, Part(Split(b.data, "_", <<>>, <<>>), 3))]
  /\ UNCHANGED <<mangaDataCache, buttons>>
  /\ UNCHANGED <<callVars, diskVars, fetchVars, lastSweep, handlers, detVars, chatVars>>

\* A chapter page button is pressed: the chp_ branch, main.js 1541-1549.
PressChapterPage(b) ==
  /\ b.kind = "chp"
  /\ pressed' = [state |-> "chp", button |-> b,
                 details |-> GetStoredMangaData(mangaDataCache, Part(Split(b.data, "_", <<>>, <<>>), 2))]
  /\ UNCHANGED <<mangaDataCache, buttons>>
  /\ UNCHANGED <<callVars, diskVars, fetchVars, lastSweep, handlers, detVars, chatVars>>

NextCache ==
  \/ \E m \in MangaIds : ViewDetails(m)
  \/ \E b \in buttons : PressChapter(b)
  \/ \E b \in buttons : PressChapterPage(b)
  \/ Tick

SpecCache == InitCache /\ [][NextCache]_vars

\* ------------------------------------------------- the details button
\* 20 of search.js:51.
DET_ID_LEN == 20

\* The manga ids a search returns: letters only, or with one underscore
\* inside, as in "one_piece"; up to one character longer than the button keeps.
DetIds ==
  {Repeat("a", n) : n \in 1..MaxDetIdLen}
    \cup {[i \in 1..n |-> IF i = k THEN "_" ELSE "a"] : n \in 3..MaxDetIdLen, k \in 2..MaxDetIdLen - 1}

\* callback_data `det_${shortId}` with shortId = manga.id cut to 20
\* characters, search.js:51-56
DetData(id) ==
  <<"d", "e", "t", "_">> \o (IF Len(id) > DET_ID_LEN THEN Substring(id, DET_ID_LEN) ELSE id)

\* A search results message with one button, made by
\* createSearchResultsMessage for the manga with the id drawn.
InitDet ==
  /\ CallAtRest
  /\ DiskEmpty
  /\ FetchAtRest
  /\ SweepAtRest
  /\ HandlersAtRest
  /\ CacheAtRest
  /\ ChatAtRest
  /\ \E id \in DetIds : detButton = [manga |-> id, data |-> DetData(id)]
  /\ detRequest = UndefinedKey

\* The button is pressed: the det_ branch, main.js 1365-1373, up to the call
\* getMangaDetails(mangaId).
PressDetails ==
  /\ detRequest = UndefinedKey
  /\ detRequest' = Part(Split(detButton.data, "_", <<>>, <<>>), 2)
  /\ UNCHANGED detButton
  /\ UNCHANGED <<callVars, diskVars, fetchVars, lastSweep, handlers, cacheVars, chatVars>>

NextDet == PressDetails

SpecDet == InitDet /\ [][NextDet]_vars

\* ------------------------------------------- scheduled message deletion
\* DELETION_TIMEOUTS, deletion.js 295-304, ms.
ERROR_MESSAGE == 30000

LOADING_MESSAGE == 5000

SEARCH_RESULTS == 1800000

MANGA_DETAILS == 1800000

\* Map.set and Map.delete on a map kept as a function.
MapSet(m, k, v) == [j \in DOMAIN m \cup {k} |-> IF j = k THEN v ELSE m[j]]

MapDelete(m, k) == [j \in DOMAIN m \ {k} |-> m[j]]

\* messagesToDelete with the timeouts behind it.
Deletions == [map |-> messagesToDelete, timers |-> timers, seq |-> timerSeq]

\* cancelMessageDeletion(chatId, messageId), deletion.js 183-192: when the
\* map has the key, clearTimeout on the id stored (which does nothing for a
\* timeout that has fired) and the entry is removed.
CancelMessageDeletion(d, k) ==
  IF k \in DOMAIN d.map
  THEN [d EXCEPT !.timers = {t \in d.timers : t.id # d.map[k]},
                 !.map = MapDelete(d.map, k)]
  ELSE d

\* scheduleMessageDeletion(bot, chatId, messageId, deleteAfter), deletion.js
\* 159-176: cancel, setTimeout, store the timeout id.
ScheduleMessageDeletion(d, k, delay) ==
  LET c == CancelMessageDeletion(d, k)
      id == c.seq + 1
  IN  [map |-> MapSet(c.map, k, id),
       timers |-> c.timers \cup {[id |-> id, key |-> k, delay |-> delay]},
       seq |-> id]

\* The deletion state becomes d.
SetDeletions(d) ==
  /\ messagesToDelete' = d.map
  /\ timers' = d.timers
  /\ timerSeq' = d.seq

\* A timeout expires: its callback starts and waits for bot.deleteMessage
\* (deletion.js 163-165).
DeletionTimerFires(t) ==
  /\ t \in timers
  /\ timers' = timers \ {t}
  /\ running' = running \cup {[id |-> t.id, key |-> t.key]}
  /\ UNCHANGED <<chat, messagesToDelete, timerSeq, loading>>
  /\ UNCHANGED <<callVars, diskVars, fetchVars, lastSweep, handlers, cacheVars, detVars,
                 searchVars, usernameVars>>

\* bot.deleteMessage settles and the callback goes on (deletion.js 166-171):
\* resolved or rejected, it removes the key's entry from messagesToDelete.
\* Telegram refuses to delete a message that is gone.
DeleteMessageSettles(r, ok) ==
  /\ r \in running
  /\ ok => chat[r.key] # "deleted"
  /\ running' = running \ {r}
  /\ chat' = IF ok THEN [chat EXCEPT ![r.key] = "deleted"] ELSE chat
  /\ messagesToDelete' = MapDelete(messagesToDelete, r.key)
  /\ UNCHANGED <<timers, timerSeq, loading>>
  /\ UNCHANGED <<callVars, diskVars, fetchVars, lastSweep, handlers, cacheVars, detVars,
                 searchVars, usernameVars>>

\* Some code of the bot calls scheduleMessageDeletion for message k.
Schedule(k, delay) ==
  /\ timerSeq < MaxTimers
  /\ SetDeletions(ScheduleMessageDeletion(Deletions, k, delay))
  /\ UNCHANGED <<chat, running, loading>>
  /\ UNCHANGED <<callVars, diskVars, fetchVars, lastSweep, handlers, cacheVars, detVars,
                 searchVars, usernameVars>>

\* Some code of the bot calls cancelMessageDeletion for message k.
Cancel(k) ==
  /\ SetDeletions(CancelMessageDeletion(Deletions, k))
  /\ UNCHANGED <<chat, running, loading>>
  /\ UNCHANGED <<callVars, diskVars, fetchVars, lastSweep, handlers, cacheVars, detVars,
                 searchVars, usernameVars>>

\* Two messages of the bot are in the chat, nothing is scheduled yet.
InitDeletion ==
  /\ CallAtRest
  /\ DiskEmpty
  /\ FetchAtRest
  /\ SweepAtRest
  /\ HandlersAtRest
  /\ CacheAtRest
  /\ DetAtRest
  /\ SearchAtRest
  /\ UsernameAtRest
  /\ chat = <<"results", "results">>
  /\ messagesToDelete = <<>>
  /\ timers = {}
  /\ running = {}
  /\ timerSeq = 0
  /\ loading = NotLoading

NextDeletion ==
  \/ \E k \in DOMAIN chat : \E delay \in {LOADING_MESSAGE, SEARCH_RESULTS} : Schedule(k, delay)
  \/ \E k \in DOMAIN chat : Cancel(k)
  \/ \E t \in timers : DeletionTimerFires(t)
  \/ \E r \in running : \E ok \in BOOLEAN : DeleteMessageSettles(r, ok)

SpecDeletion == InitDeletion /\ [][NextDeletion]_vars

\* ------------------------------------------ handleCallbackWithLoading
\* The message the pressed button is on: callbackQuery.message.message_id.
CallbackMessage == 1

\* What the det_ handler's getMangaDetails and createMangaDetailsMessage
\* come to (main.js 1373-1403): details with a cover, details without one,
\* null, or an exception.
DetailsOutcomes == {"photo", "text", "null", "throw"}

\* The deleteAfter that goes with a text the det_ handler shows.
DeleteAfter(text) == IF text = "details" THEN MANGA_DETAILS ELSE ERROR_MESSAGE

\* The catch block of handleCallbackWithLoading begins (deletion.js 225-244):
\* safeEditOrSend cancels the callback message's deletion and edits it.
CatchBegins ==
  /\ SetDeletions(CancelMessageDeletion(Deletions, CallbackMessage))
  /\ loading' = [loading EXCEPT !.pc = "errEdit"]
  /\ UNCHANGED chat

\* The handler has returned with the deletion state d: line 220 cancels the
\* deletion of the loading message, and handleCallbackWithLoading returns.
HandlerReturns(d) ==
  /\ SetDeletions(CancelMessageDeletion(d, loading.message))
  /\ loading' = [loading EXCEPT !.pc = "returned"]

\* A details button is pressed: the det_ branch calls
\* handleCallbackWithLoading, whose safeEditOrSend (deletion.js 103-111)
\* cancels the message's deletion and starts editing it to the loading text.
PressButton ==
  /\ loading.pc = "idle"
  /\ SetDeletions(CancelMessageDeletion(Deletions, CallbackMessage))
  /\ loading' = [loading EXCEPT !.pc = "loadEdit"]
  /\ UNCHANGED <<chat, running>>
  /\ UNCHANGED <<callVars, diskVars, fetchVars, lastSweep, handlers, cacheVars, detVars,
                 searchVars, usernameVars>>

\* editMessageText with the loading text settles (deletion.js 120-134):
\* resolved, the deletion of the message is scheduled and the handler starts;
\* rejected, safeEditOrSend sends a new message instead.
LoadEditSettles(ok) ==
  /\ loading.pc = "loadEdit"
  /\ ok => chat[CallbackMessage] # "deleted"
  /\ IF ok
     THEN /\ chat' = [chat EXCEPT ![CallbackMessage] = "loading"]
          /\ SetDeletions(ScheduleMessageDeletion(Deletions, CallbackMessage, LOADING_MESSAGE))
          /\ loading' = [loading EXCEPT !.pc = "handler", !.message = CallbackMessage,
                                        !.edited = TRUE]
     ELSE /\ loading' = [loading EXCEPT !.pc = "loadSend"]
          /\ UNCHANGED <<chat, messagesToDelete, timers, timerSeq>>
  /\ UNCHANGED running
  /\ UNCHANGED <<callVars, diskVars, fetchVars, lastSweep, handlers, cacheVars, detVars,
                 searchVars, usernameVars>>

\* sendMessage with the loading text settles (deletion.js 136-148, 30-59):
\* resolved, the new message is the loading message; rejected, the
\* exception reaches the catch block of handleCallbackWithLoading.
LoadSendSettles(ok) ==
  /\ loading.pc = "loadSend"
  /\ IF ok
     THEN /\ chat' = Append(chat, "loading")
          /\ SetDeletions(ScheduleMessageDeletion(Deletions, Len(chat) + 1, LOADING_MESSAGE))
          /\ loading' = [loading EXCEPT !.pc = "handler", !.message = Len(chat) + 1]
     ELSE CatchBegins
  /\ UNCHANGED running
  /\ UNCHANGED <<callVars, diskVars, fetchVars, lastSweep, handlers, cacheVars, detVars,
                 searchVars, usernameVars>>

\* The handler's getMangaDetails settles (main.js 1373-1403) and the handler
\* starts to show the outcome: a new photo message, or an edit of the
\* callback message to the details or to the not-found text.
DetailsSettle(o) ==
  /\ loading.pc = "handler"
  /\ CASE o = "photo" ->
            /\ loading' = [loading EXCEPT !.pc = "photo"]
            /\ UNCHANGED <<chat, messagesToDelete, timers, timerSeq>>
       [] o = "throw" -> CatchBegins
       [] OTHER ->
            /\ SetDeletions(CancelMessageDeletion(Deletions, CallbackMessage))
            /\ loading' = [loading EXCEPT !.pc = "resEdit",
                                          !.text = IF o = "text" THEN "details" ELSE "error"]
            /\ UNCHANGED chat
  /\ UNCHANGED running
  /\ UNCHANGED <<callVars, diskVars, fetchVars, lastSweep, handlers, cacheVars, detVars,
                 searchVars, usernameVars>>

\* sendPhoto settles (main.js 1381-1385, deletion.js 70-90): resolved, the
\* photo message is scheduled for deletion and the handler returns.
PhotoSettles(ok) ==
  /\ loading.pc = "photo"
  /\ IF ok
     THEN /\ chat' = Append(chat, "photo")
          /\ HandlerReturns(ScheduleMessageDeletion(Deletions, Len(chat) + 1, MANGA_DETAILS))
     ELSE CatchBegins
  /\ UNCHANGED running
  /\ UNCHANGED <<callVars, diskVars, fetchVars, lastSweep, handlers, cacheVars, detVars,
                 searchVars, usernameVars>>

\* The handler's editMessageText settles (main.js 1387-1402, deletion.js
\* 120-134).
ResEditSettles(ok) ==
  /\ loading.pc = "resEdit"
  /\ ok => chat[CallbackMessage] # "deleted"
  /\ IF ok
     THEN /\ chat' = [chat EXCEPT ![CallbackMessage] = loading.text]
          /\ HandlerReturns(ScheduleMessageDeletion(Deletions, CallbackMessage,
                                                    DeleteAfter(loading.text)))
     ELSE /\ loading' = [loading EXCEPT !.pc = "resSend"]
          /\ UNCHANGED <<chat, messagesToDelete, timers, timerSeq>>
  /\ UNCHANGED running
  /\ UNCHANGED <<callVars, diskVars, fetchVars, lastSweep, handlers, cacheVars, detVars,
                 searchVars, usernameVars>>

\* The sendMessage that replaces the handler's failed edit settles
\* (deletion.js 136-148).
ResSendSettles(ok) ==
  /\ loading.pc = "resSend"
  /\ IF ok
     THEN /\ chat' = Append(chat, loading.text)
          /\ HandlerReturns(ScheduleMessageDeletion(Deletions, Len(chat) + 1,
                                                    DeleteAfter(loading.text)))
     ELSE CatchBegins
  /\ UNCHANGED running
  /\ UNCHANGED <<callVars, diskVars, fetchVars, lastSweep, handlers, cacheVars, detVars,
                 searchVars, usernameVars>>

\* The catch block's editMessageText settles (deletion.js 229-243).
ErrEditSettles(ok) ==
  /\ loading.pc = "errEdit"
  /\ ok => chat[CallbackMessage] # "deleted"
  /\ IF ok
     THEN /\ chat' = [chat EXCEPT ![CallbackMessage] = "error"]
          /\ SetDeletions(ScheduleMessageDeletion(Deletions, CallbackMessage, ERROR_MESSAGE))
          /\ loading' = [loading EXCEPT !.pc = "returned"]
     ELSE /\ loading' = [loading EXCEPT !.pc = "errSend"]
          /\ UNCHANGED <<chat, messagesToDelete, timers, timerSeq>>
  /\ UNCHANGED running
  /\ UNCHANGED <<callVars, diskVars, fetchVars, lastSweep, handlers, cacheVars, detVars,
                 searchVars, usernameVars>>

\* The sendMessage that replaces the catch block's failed edit settles; when
\* it is rejected too, handleCallbackWithLoading rejects.
ErrSendSettles(ok) ==
  /\ loading.pc = "errSend"
  /\ IF ok
     THEN /\ chat' = Append(chat, "error")
          /\ SetDeletions(ScheduleMessageDeletion(Deletions, Len(chat) + 1, ERROR_MESSAGE))
          /\ loading' = [loading EXCEPT !.pc = "returned"]
     ELSE /\ loading' = [loading EXCEPT !.pc = "rejected"]
          /\ UNCHANGED <<chat, messagesToDelete, timers, timerSeq>>
  /\ UNCHANGED running
  /\ UNCHANGED <<callVars, diskVars, fetchVars, lastSweep, handlers, cacheVars, detVars,
                 searchVars, usernameVars>>

\* A search results message is in the chat, sent by the /search handler with
\* its deletion scheduled after SEARCH_RESULTS (main.js 889-893).
InitLoading ==
  /\ CallAtRest
  /\ DiskEmpty
  /\ FetchAtRest
  /\ SweepAtRest
  /\ HandlersAtRest
  /\ CacheAtRest
  /\ DetAtRest
  /\ SearchAtRest
  /\ UsernameAtRest
  /\ chat = <<"results">>
  /\ messagesToDelete = [k \in {CallbackMessage} |-> 1]
  /\ timers = {[id |-> 1, key |-> CallbackMessage, delay |-> SEARCH_RESULTS]}
  /\ running = {}
  /\ timerSeq = 1
  /\ loading = NotLoading

NextLoading ==
  \/ PressButton
  \/ \E ok \in BOOLEAN : LoadEditSettles(ok)
  \/ \E ok \in BOOLEAN : LoadSendSettles(ok)
  \/ \E o \in DetailsOutcomes : DetailsSettle(o)
  \/ \E ok \in BOOLEAN : PhotoSettles(ok)
  \/ \E ok \in BOOLEAN : ResEditSettles(ok)
  \/ \E ok \in BOOLEAN : ResSendSettles(ok)
  \/ \E ok \in BOOLEAN : ErrEditSettles(ok)
  \/ \E ok \in BOOLEAN : ErrSendSettles(ok)
  \/ \E t \in timers : DeletionTimerFires(t)
  \/ \E r \in running : \E ok \in BOOLEAN : DeleteMessageSettles(r, ok)

SpecLoading == InitLoading /\ [][NextLoading]_vars

\* --------------------------------------------- the search results store
\* 60 * 60 * 1000 of part_003:172, ms.
SEARCH_TTL_MS == 60 * 60 * 1000

ChatIds == {"c1", "c2"}

Queries == {"naruto", "bleach"}

\* searchCache.get(chatId) || null: the null.
NoSearch == [query |-> "", timestamp |-> -1]

\* storeSearchResults(chatId, results, query), part_003:164-178: set, then
\* delete every entry whose timestamp is below Date.now() - one hour.
StoreSearchResultsAt(cache, c, q, t) ==
  LET set == [k \in DOMAIN cache \cup {c} |->
                IF k = c THEN [query |-> q, timestamp |-> t] ELSE cache[k]]
  IN  [k \in {j \in DOMAIN set : ~(set[j].timestamp < t - SEARCH_TTL_MS)} |-> set[k]]

\* A search in chat c: main.js 884-885.
StoreSearchResults(c, q) ==
  /\ searchCache' = StoreSearchResultsAt(searchCache, c, q, now)
  /\ UNCHANGED searchGot
  /\ UNCHANGED <<callVars, diskVars, fetchVars, lastSweep, handlers, cacheVars, detVars,
                 deletionVars, usernameVars>>

\* getStoredSearchResults(chatId), part_003:185-187, called when a page
\* button of the search results is pressed (main.js 1515).
GetStoredSearchResults(c) ==
  /\ searchGot' = [state |-> "got", chat |-> c, at |-> now,
                   entry |-> IF c \in DOMAIN searchCache THEN searchCache[c] ELSE NoSearch]
  /\ UNCHANGED searchCache
  /\ UNCHANGED <<callVars, diskVars, fetchVars, lastSweep, handlers, cacheVars, detVars,
                 deletionVars, usernameVars>>

InitSearch ==
  /\ CallAtRest
  /\ DiskEmpty
  /\ FetchAtRest
  /\ SweepAtRest
  /\ HandlersAtRest
  /\ UiAtRest

NextSearch ==
  \/ \E c \in ChatIds : \E q \in Queries : StoreSearchResults(c, q)
  \/ \E c \in ChatIds : GetStoredSearchResults(c)
  \/ Tick

SpecSearch == InitSearch /\ [][NextSearch]_vars

\* ------------------------------------------------- the bot's username
\* The handlers that begin with `await getBotUsername()`: main.js 701, 754,
\* 912, 922, 1328.
CommandHandlers == {"start", "help", "search", "details", "text"}

\* How bot.getMe() settles: with a username, without one, or rejected.
GetMeOutcomes == {"username", "empty", "rejected"}

\* getBotUsername's value for an outcome of getMe, main.js 689-695:
\* botInfo.username || 'duckdex_bot', and 'duckdex_bot' from the catch.
BotUsername(o) == IF o = "username" THEN "the_bot" ELSE "duckdex_bot"

\* An update reaches handler h, whose first statement calls getBotUsername:
\* bot.getMe() is called and awaited (main.js 688-690).
Receive(h) ==
  /\ getMeCalls < MaxCommands
  /\ IF h \in DOMAIN getMe THEN getMe[h].state = "done" ELSE TRUE
  /\ getMe' = MapSet(getMe, h, [state |-> "waiting", username |-> ""])
  /\ getMeCalls' = getMeCalls + 1
  /\ UNCHANGED <<callVars, diskVars, fetchVars, lastSweep, handlers, cacheVars, detVars,
                 deletionVars, searchVars>>

\* getMe settles and getBotUsername returns to handler h (main.js 691-695).
GetMeSettles(h, o) ==
  /\ h \in DOMAIN getMe
  /\ getMe[h].state = "waiting"
  /\ getMe' = [getMe EXCEPT ![h] = [state |-> "done", username |-> BotUsername(o)]]
  /\ UNCHANGED getMeCalls
  /\ UNCHANGED <<callVars, diskVars, fetchVars, lastSweep, handlers, cacheVars, detVars,
                 deletionVars, searchVars>>

InitUsername ==
  /\ CallAtRest
  /\ DiskEmpty
  /\ FetchAtRest
  /\ SweepAtRest
  /\ HandlersAtRest
  /\ UiAtRest

NextUsername ==
  \/ \E h \in CommandHandlers : Receive(h)
  \/ \E h \in CommandHandlers : \E o \in GetMeOutcomes : GetMeSettles(h, o)

SpecUsername == InitUsername /\ [][NextUsername]_vars

\* ============================================================ claims
\* The call has resolved or rejected.
Terminal == pc \in {"returned", "rejected"}

\* The 50 MB ceiling in bytes.
Ceiling == MAX_PDF_MB * 1024 * 1024

\* The number of pages the provider listed.
PageCount == Len(pages.items)

\* Some attempt ended with fewer fulfilled pages than requested.
SomeAttemptShort ==
  \E i \in DOMAIN attemptLog : attemptLog[i].fulfilled < PageCount

\* At least one attempt was made, and in every attempt made all pages were
\* fulfilled and the document was assembled.
AllAttemptsAssembled ==
  /\ Len(attemptLog) >= 1
  /\ \A i \in DOMAIN attemptLog :
       attemptLog[i].fulfilled = PageCount /\ attemptLog[i].status = "assembled"

\* The attempts whose document is within the ceiling.
AttemptsWithinCeiling ==
  {i \in DOMAIN attemptLog :
     attemptLog[i].status = "assembled" /\ attemptLog[i].size <= Ceiling}

\* The document d holds exactly one page per page of the provider's list.
CompleteDocument(d) ==
  /\ Len(d.pages) = PageCount
  /\ \A i \in 1..PageCount :
       Cardinality({k \in DOMAIN d.pages : d.pages[k] = pages.items[i]}) = 1

\* The lowest quality of the descending sequence 85, 75, ... that is >= 20.
LowestQuality ==
  QUALITY_START - QUALITY_STEP * ((QUALITY_START - QUALITY_FLOOR) \div QUALITY_STEP)

\* C1 (as claimed): once some attempt has fewer fulfilled pages than
\* requested, the call rejects with "pages failed to process", returns no
\* result and has written no document.
C1_PartialFailureAborts ==
  (Terminal /\ SomeAttemptShort) =>
    /\ pc = "rejected"
    /\ error = "pages failed to process"
    /\ result = NoResult
    /\ files = <<>>

\* C2: every document on disk or returned holds exactly one page per
\* ChapterPage of the provider's list, and result.totalPages is the
\* provider's page count.
C2_NoMissingPages ==
  /\ \A p \in DOMAIN files : CompleteDocument(files[p])
  /\ pc = "returned" =>
       /\ result.path \in DOMAIN files
       /\ CompleteDocument(files[result.path])
       /\ result.totalPages = PageCount

\* A result was returned after an attempt in which exactly one of several
\* pages was rejected.
C2_Witness ==
  /\ pc = "returned"
  /\ PageCount >= 2
  /\ \E i \in DOMAIN attemptLog : attemptLog[i].fulfilled = PageCount - 1

\* C3: when every attempt made had all its pages and some attempt's document
\* is within the ceiling, that attempt is the last one made (no lower
\* quality was tried), it is the only one within the ceiling, and
\* result.quality is the highest tested quality whose document is within
\* the ceiling.
C3_HighestQualityAccepted ==
  (pc = "returned" /\ AllAttemptsAssembled /\ AttemptsWithinCeiling # {}) =>
    /\ AttemptsWithinCeiling = {Len(attemptLog)}
    /\ \A i \in AttemptsWithinCeiling : attemptLog[i].quality <= result.quality
    /\ \E i \in AttemptsWithinCeiling : attemptLog[i].quality = result.quality
    /\ \A i \in DOMAIN attemptLog : attemptLog[i].quality >= result.quality
    /\ fetchCount = Len(attemptLog) * PageCount

\* The documents at 85 and 75 were over the ceiling and the one at 65 is
\* within it.
C3_Witness ==
  /\ pc = "returned"
  /\ AllAttemptsAssembled
  /\ Len(attemptLog) = 3
  /\ attemptLog[3].size <= Ceiling
  /\ result.quality = 65

\* C4 (as claimed), for the calls the claim names, those in which every
\* attempt had all its pages: the call either returns a result whose
\* document is at most 50 MB, or fails; it fails when no quality met the
\* ceiling.
C4_WithinCeilingOrFails ==
  (Terminal /\ AllAttemptsAssembled) =>
    /\ pc = "returned" => files[result.path].size <= Ceiling
    /\ AttemptsWithinCeiling = {} => pc = "rejected"

\* C4 (amended): a returned result's document is over 50 MB only when no
\* attempt of the call assembled a document within the ceiling; when all
\* pages compress at every attempt and none meets the ceiling, the call
\* returns (an over-ceiling document) instead of failing.
C4_OverCeilingOnlyWhenNoneMeets ==
  /\ pc = "returned" =>
       /\ result.path \in DOMAIN files
       /\ (files[result.path].size > Ceiling => AttemptsWithinCeiling = {})
  /\ (Terminal /\ AllAttemptsAssembled /\ AttemptsWithinCeiling = {}) =>
       (pc = "returned" /\ files[result.path].size > Ceiling)

\* All pages compressed at each of the attempts, every document was over the
\* ceiling, and a result with an over-ceiling document was returned.
C4_Witness ==
  /\ pc = "returned"
  /\ AllAttemptsAssembled
  /\ \A i \in DOMAIN attemptLog : attemptLog[i].size > Ceiling
  /\ files[result.path].size > Ceiling

\* C5: when every page compressed at every attempt and no attempt met the
\* ceiling, the call returns, and the document on disk is the one the
\* lowest-quality attempt assembled.
C5_ExhaustedReturnsLastAttempt ==
  (Terminal /\ AllAttemptsAssembled /\ AttemptsWithinCeiling = {}) =>
    /\ pc = "returned"
    /\ error = ""
    /\ result.path \in DOMAIN files
    /\ files[result.path].quality = LowestQuality
    /\ files[result.path].quality = attemptLog[Len(attemptLog)].quality
    /\ files[result.path].size = attemptLog[Len(attemptLog)].size
    /\ \A i \in DOMAIN attemptLog : attemptLog[i].quality >= files[result.path].quality
    /\ CompleteDocument(files[result.path])

\* Every quality level was tried with all pages fulfilled, and none met the
\* ceiling.
C5_Witness ==
  /\ Terminal
  /\ AllAttemptsAssembled
  /\ AttemptsWithinCeiling = {}
  /\ attemptLog[Len(attemptLog)].quality = LowestQuality

\* C6 (as claimed): result.quality is the quality of the attempt that
\* produced the bytes written to disk.
C6_QualityOfWrittenBytes ==
  pc = "returned" => result.quality = files[result.path].quality

\* C7 (as claimed): the image objects handed to the assembler are sorted by
\* pageNumber, and every assembled document has its pages in the order
\* 1..N.
C7_PagesAscending ==
  /\ pc = "building" =>
       \A j, k \in DOMAIN imageObjects :
         j < k => imageObjects[j].pageNumber < imageObjects[k].pageNumber
  /\ pdfBytes # Undefined => pdfBytes.pages = [k \in 1..PageCount |-> k]

\* C8: for an empty page list the call rejects with "No pages found", no
\* page fetch was issued, and neither the scratch directory nor any file was
\* created.
C8_EmptyListRejected ==
  (pages.kind = "array" /\ PageCount = 0) =>
    /\ pc = "rejected"
    /\ error = "No pages found"
    /\ result = NoResult
    /\ fetchCount = 0
    /\ dirs = {}
    /\ files = <<>>

\* The provider returned an empty list.
C8_Witness ==
  /\ Terminal
  /\ pages.kind = "array"
  /\ PageCount = 0

\* C9 (as claimed): when the page-list request failed or did not return a
\* non-empty list, the call rejects with "No pages found", without a page
\* fetch, a second page-list request or a write.
C9_UnavailableFailsFast ==
  (pc \notin {"idle", "meta"} /\ ~(pages.kind = "array" /\ PageCount > 0)) =>
    /\ pc = "rejected"
    /\ error = "No pages found"
    /\ fetchCount = 0
    /\ metaRequests = 1
    /\ dirs = {}
    /\ files = <<>>

\* Two identifiers of the same length that differ at most in which separator
\* stands at a position.
DiffersOnlyInSeparator(a, b) ==
  /\ Len(a) = Len(b)
  /\ \A k \in DOMAIN a : a[k] = b[k] \/ {a[k], b[k]} = {"/", "\\"}

\* C10: the written path is a direct child of the scratch directory, the
\* filename holds no path separator, no other directory or file appears, and
\* an identifier that differs only in its separators has the same filename.
C10_FlatFilename ==
  pc = "returned" =>
    /\ \A k \in DOMAIN result.filename : result.filename[k] \notin {"/", "\\"}
    /\ result.path = Append(outputDir, result.filename)
    /\ DOMAIN files = {result.path}
    /\ dirs = {outputDir}
    /\ \A other \in ChapterIds :
         DiffersOnlyInSeparator(chapterId, other) => Filename(other) = result.filename

\* A document was written for an identifier holding both separators.
C10_Witness ==
  /\ pc = "returned"
  /\ \E j, k \in DOMAIN chapterId : chapterId[j] = "/" /\ chapterId[k] = "\\"

\* C18: no fetchAndCompressImage call is repeated for the same page at the
\* same quality, every call belongs to a fan-out over the whole page list
\* (no page is fetched on its own), and an attempt with a rejected page is
\* the last: the call has ended and no fetch was issued after that attempt's
\* fan-out.
C18_NoRefetch ==
  /\ fetchCount = Len(fetchLog)
  /\ \A j, k \in DOMAIN fetchLog : j < k => fetchLog[j] # fetchLog[k]
  /\ \A j \in DOMAIN fetchLog :
       {fetchLog[k].index : k \in {n \in DOMAIN fetchLog : fetchLog[n].quality = fetchLog[j].quality}}
         = 1..PageCount
  /\ \A i \in DOMAIN attemptLog :
       attemptLog[i].fulfilled < PageCount =>
         /\ i = Len(attemptLog)
         /\ Terminal
         /\ Len(fetchLog) = i * PageCount
  /\ (pc = "fetching" /\ \E i \in DOMAIN results : results[i] = "rejected") =>
       Len(fetchLog) = (Len(attemptLog) + 1) * PageCount

\* The second attempt lost exactly one of several pages and the call ended
\* there.
C18_Witness ==
  /\ Terminal
  /\ PageCount >= 2
  /\ Len(attemptLog) = 2
  /\ attemptLog[2].fulfilled = PageCount - 1
  /\ Len(fetchLog) = 2 * PageCount

\* C19: the image objects handed to buildPdf are in the order of the
\* provider's page list, whatever the order in which the fetches settled,
\* and the document of an attempt has one page per image object, in that
\* order, each with the canvas of its image's width and height.
C19_ListOrderAndCanvas ==
  /\ pc = "building" =>
       /\ Len(imageObjects) = PageCount
       /\ \A k \in DOMAIN imageObjects : imageObjects[k].pageNumber = pages.items[k]
  /\ (pdfBytes # Undefined /\ imageObjects # <<>>
        /\ imageObjects[1].quality = pdfBytes.quality) =>
       /\ Len(pdfBytes.pages) = Len(imageObjects)
       /\ Len(pdfBytes.canvas) = Len(imageObjects)
       /\ \A k \in DOMAIN imageObjects :
            /\ pdfBytes.pages[k] = imageObjects[k].pageNumber
            /\ pdfBytes.canvas[k] = <<imageObjects[k].width, imageObjects[k].height>>
  /\ pdfBytes # Undefined => pdfBytes.pages = pages.items

\* The fetches settled in an order other than the list's and the images are
\* about to be assembled.
C19_Witness ==
  /\ pc = "building"
  /\ PageCount >= 2
  /\ settled # [k \in 1..PageCount |-> k]
  /\ Len(settled) = PageCount

\* C20: while an attempt is fetching, a fetch has been issued for every
\* page of the list at the attempt's quality; and whenever the attempt has
\* moved on (to assembly, to the next attempt's end, or to the end of the
\* call) no promise of its fan-out is still pending, also when one of them
\* was rejected.
C20_JoinBeforeProceeding ==
  /\ pc = "fetching" =>
       /\ Len(results) = PageCount
       /\ \A i \in 1..PageCount :
            \E k \in DOMAIN fetchLog : fetchLog[k] = [quality |-> quality, index |-> i]
  /\ pc \in {"building", "returned", "rejected"} =>
       \A i \in DOMAIN results : results[i] \in {"fulfilled", "rejected"}
  /\ \A i \in DOMAIN attemptLog :
       attemptLog[i].status = "partial" => Len(settled) = PageCount

\* A page was rejected first, the other pages settled after it, and only
\* then did the call end.
C20_Witness ==
  /\ Terminal
  /\ PageCount >= 2
  /\ Len(settled) = PageCount
  /\ results[settled[1]] = "rejected"

\* C16 (as claimed): the promise of fetchAndCompressImage is rejected whenever
\* the request fails with a network or timeout error, the proxy answers with a
\* non-success status, or the body cannot be decoded and re-encoded; a page
\* whose response had a non-success status is never fulfilled.
C16_FailureRejects ==
  fetchCall.state = "settled" =>
    /\ (\/ fetchResponse.net # "ok"
        \/ fetchResponse.status < 200
        \/ fetchResponse.status > 299
        \/ fetchResponse.body # "image"
        \/ fetchCall.quality < 1) => fetchOutcome.status = "rejected"
    /\ (fetchResponse.net = "ok" /\ fetchResponse.status >= 400)
         => fetchOutcome.status # "fulfilled"

\* The entries the last sweep met that were older than the retention period.
OldBefore == {f \in DOMAIN lastSweep.before : lastSweep.before[f] < now - 3600000}

\* C12 (as claimed): a sweep in which one entry cannot be deleted skips that
\* entry and still deletes every other entry older than the retention period.
C12_UndeletableSkipped ==
  (lastSweep.ran /\ lastSweep.fault.op = "unlink" /\ lastSweep.fault.path \in OldBefore) =>
    \A f \in OldBefore \ {lastSweep.fault.path} : f \notin DOMAIN files

C11_SweepFailureNotFatal ==
  \A h \in DOMAIN handlers :
    handlers[h].sweep = "threw" =>
      /\ handlers[h].error # "sweep"
      /\ handlers[h].pc \notin {"report", "failed"} \/ handlers[h].error \in {"pdf", "edit", "send"}

\* One step of the handlers, as C14 allows it.
C14_Step ==
  \A h \in Handlers :
    LET a == handlers[h]
        b == handlers'[h]
    IN  /\ (a.timer = "none" /\ b.timer # "none") =>
             /\ b.timer = "pending"
             /\ a.delivered
             /\ b.due = now + 5000
             /\ files' = files
        /\ (a.timer = "pending" /\ b.timer # "pending") =>
             /\ now >= a.due
             /\ b.timer = "fired" => a.path \notin DOMAIN files'
        /\ (b # a /\ a.path \in DOMAIN files /\ a.path \notin DOMAIN files') =>
             a.delivered /\ a.timer = "pending"
        /\ b.delivered => b.pc \in {"delmsg", "done"}

\* C14: a handler sets the deletion timer for its file only after its own
\* sendDocument call succeeded; the timer is due 5 s after it was set, its
\* callback runs no earlier than that and then the file is gone (unless
\* unlinkSync threw, which is caught); no step of a handler removes the file
\* at its result path before its own delivery completed.
C14_DeleteAfterDelivery == [][C14_Step]_vars

\* A handler delivered its document, its timer ran 5 s after it was set and
\* the file is gone.
C14_Witness ==
  \E h \in DOMAIN handlers :
    /\ handlers[h].delivered
    /\ handlers[h].timer = "fired"
    /\ now = handlers[h].due
    /\ handlers[h].path \notin DOMAIN files

\* The export of handler h is under way.
InFlight(h) ==
  \/ handlers[h].pc \in {"status", "pdf", "edit", "send", "delmsg", "report"}
  \/ handlers[h].timer = "pending"

\* Two exports under way whose sanitized file names differ.
Apart(h, g) ==
  /\ h # g
  /\ InFlight(h)
  /\ InFlight(g)
  /\ Filename(handlers[h].chapterId) # Filename(handlers[g].chapterId)

\* The step leaves the file at path p as it is.
FileUntouched(p) ==
  /\ p \in DOMAIN files <=> p \in DOMAIN files'
  /\ p \in DOMAIN files => files'[p] = files[p] /\ mtimes'[p] = mtimes[p]

\* A result createChapterPDF returned to h is the one it returns when h runs
\* alone, and the file at its path, while there, is the document h wrote.
SameAsAlone(h) ==
  handlers[h].pc \in {"edit", "send", "delmsg"} =>
    /\ handlers[h].path = PathJoin(outputDir, Filename(handlers[h].chapterId))
    /\ handlers[h].path \in DOMAIN files =>
         files[handlers[h].path] = [chapterId |-> handlers[h].chapterId, by |-> h]

\* C15 (as claimed): of two concurrent exports with different sanitized file
\* names, no step of one changes or removes the file of the other, and each
\* gets the same result and writes the same document as when run alone.
C15_NoInterference ==
  [][\A h, g \in Handlers :
       (Apart(h, g) /\ handlers'[g] # handlers[g]) =>
         /\ FileUntouched(OutputPath(handlers[h].chapterId))
         /\ SameAsAlone(h)]_vars

\* C15 (amended): as above, except that the sweep at the start of one export
\* removes the file of the other when that file was last written more than
\* one hour before.
C15_NoInterferenceWithinRetention ==
  [][\A h, g \in Handlers :
       (Apart(h, g) /\ handlers'[g] # handlers[g]) =>
         /\ \/ FileUntouched(OutputPath(handlers[h].chapterId))
            \/ /\ handlers[g].pc = "status"
               /\ OutputPath(handlers[h].chapterId) \in DOMAIN files
               /\ mtimes[OutputPath(handlers[h].chapterId)] < now - 3600000
               /\ OutputPath(handlers[h].chapterId) \notin DOMAIN files'
         /\ SameAsAlone(h)]_vars

\* Two exports with different file names are both between createChapterPDF
\* and the end of the upload, one written while the other was under way, and
\* each file holds the document of its own export.
C15_Witness ==
  \E h, g \in DOMAIN handlers :
    /\ h # g
    /\ handlers[h].pc = "send"
    /\ handlers[g].pc = "send"
    /\ handlers[h].path # handlers[g].path
    /\ handlers[h].path \in DOMAIN files
    /\ handlers[g].path \in DOMAIN files
    /\ files[handlers[h].path].by = h
    /\ files[handlers[g].path].by = g
    /\ mtimes[handlers[h].path] < mtimes[handlers[g].path]

\* C17 (as claimed, for the deletion timers): while a sendDocument upload of
\* a path is in flight, the deletion timer of another export does not remove
\* the file at that path, two exports of one chapter included.
C17_NoDeletionDuringUpload ==
  [][\A h, g \in Handlers :
       (/\ h # g
        /\ handlers[h].pc = "send"
        /\ handlers[h].path \in DOMAIN files
        /\ handlers[g].timer = "pending"
        /\ handlers'[g].timer # "pending") =>
         handlers[h].path \in DOMAIN files']_vars

\* C21: when the page-list request and every page fetch settle, a call that
\* was made returns or rejects; it makes at most 7 attempts and at most
\* 7 x N page fetches for a chapter of N pages.
C21_Terminates ==
  /\ [](Len(attemptLog) <= 7 /\ fetchCount <= 7 * PageCount)
  /\ <>Terminal

\* A call went through all 7 attempts and 7 x N fetches and returned.
C21_Witness ==
  /\ pc = "returned"
  /\ PageCount >= 2
  /\ Len(attemptLog) = 7
  /\ fetchCount = 7 * PageCount

\* C22: the attempts of one call have the qualities 85, 75, 65, ... in this
\* order; every quality passed to fetchAndCompressImage lies between 20 and
\* 85 and no quality is attempted twice.
C22_QualityDescends ==
  /\ \A i \in DOMAIN attemptLog : attemptLog[i].quality = 85 - 10 * (i - 1)
  /\ \A k \in DOMAIN fetchLog :
       /\ fetchLog[k].quality \in 20..85
       /\ k > PageCount => fetchLog[k].quality = fetchLog[k - PageCount].quality - 10
  /\ pc \in {"fetching", "building"} => quality = 85 - 10 * Len(attemptLog)
  /\ \A i, j \in DOMAIN attemptLog : i < j => attemptLog[i].quality > attemptLog[j].quality

\* The call is fetching at the last quality of the sequence, 25.
C22_Witness ==
  /\ pc = "fetching"
  /\ Len(attemptLog) = 6
  /\ quality = 25
  /\ fetchLog[Len(fetchLog)].quality = 25

\* C23: when buildPdf fails to embed a page in some attempt, the call rejects
\* with that error, that attempt is the last one, no fetch follows it and
\* nothing is written or returned, whatever earlier attempts assembled.
C23_EmbedFailureIsFatal ==
  \A i \in DOMAIN attemptLog :
    attemptLog[i].status = "embed_failed" =>
      /\ i = Len(attemptLog)
      /\ pc = "rejected"
      /\ error = "EmbedError"
      /\ Len(fetchLog) = i * PageCount
      /\ files = <<>>
      /\ dirs = {}
      /\ result = NoResult

\* The first attempt assembled a complete document over the ceiling and the
\* second failed to embed a page.
C23_Witness ==
  /\ Len(attemptLog) = 2
  /\ attemptLog[1].status = "assembled"
  /\ attemptLog[1].fulfilled = PageCount
  /\ attemptLog[1].size > Ceiling
  /\ attemptLog[2].status = "embed_failed"
  /\ pc = "rejected"

\* C24 (as claimed, for the artifacts no timer was set for): a sweep run for
\* a later export, once such an artifact is older than the retention period,
\* deletes it, as long as the directory can be listed and the artifact itself
\* can be examined and unlinked.
C24_OldArtifactSwept ==
  (lastSweep.ran /\ outputDir \in dirs /\ lastSweep.fault.op # "readdir") =>
    \A f \in DOMAIN lastSweep.before :
      (lastSweep.before[f] < now - 3600000 /\ f # lastSweep.fault.path) =>
        f \notin DOMAIN files

\* C25 (as claimed): the details a chapter button or a chapter page button
\* resolves to in the ch_ and chp_ branches are those of the manga whose
\* details message carried the button, never those of another manga.
C25_ButtonResolvesToItsManga ==
  (pressed.state # "none" /\ pressed.details.manga # <<>>) =>
    pressed.details.manga = pressed.button.manga

\* C26 (as claimed): the id the det_ branch extracts from a details button
\* and passes to getMangaDetails is the id of the manga the button was made
\* for, also for ids longer than 20 characters and ids with an underscore.
C26_DetailsRoundTrip ==
  detRequest # <<"undefined">> => detRequest = detButton.manga


\* C30 (as claimed): under every interleaving of scheduleMessageDeletion,
\* cancelMessageDeletion and timeout callbacks, each message has at most one
\* armed deletion timeout, and messagesToDelete holds that timeout under the
\* message's key, so that it can still be cancelled.
C30_PendingIsCancellable ==
  \A t \in timers :
    /\ t.key \in DOMAIN messagesToDelete
    /\ messagesToDelete[t.key] = t.id

\* handleCallbackWithLoading has returned after its edit of the callback
\* message to the loading text went through.
ReturnedAfterLoadingEdit == loading.pc = "returned" /\ loading.edited

\* A deletion of message k is pending: its timeout is armed or its callback
\* is waiting for deleteMessage.
DeletionPending(k) == \E t \in timers \cup running : t.key = k

\* C27 (as claimed): once handleCallbackWithLoading has returned, the message
\* it edited to the loading text shows the final content or an error
\* message, or is deleted, or has a deletion pending; it is never left with
\* the loading text and nothing pending.
C27_LoadingNotLeftBehind ==
  ReturnedAfterLoadingEdit =>
    \/ chat[CallbackMessage] # "loading"
    \/ DeletionPending(CallbackMessage)

\* C28 (as claimed): getStoredSearchResults never returns an entry that was
\* stored more than one hour before the call. (The claim also says such an
\* entry does not stay in searchCache; an entry that is returned has stayed.)
C28_NoStaleSearchResults ==
  (searchGot.state = "got" /\ searchGot.entry # NoSearch) =>
    searchGot.at - searchGot.entry.timestamp <= SEARCH_TTL_MS

\* C29 (as claimed): however many commands, text messages and callback
\* queries are handled, bot.getMe() is called at most once in the life of
\* the process.
C29_GetMeAtMostOnce == getMeCalls <= 1
====
